---- MODULE Spec2Model ----
(***************************************************************************)
(* Model of the salsa runtime core:                                        *)
(*   - src/storage.rs       StorageHandle / Storage / Coordinate:          *)
(*                          clone counting and the exclusive-access        *)
(*                          barrier (cancel_others / zalsa_mut);           *)
(*   - src/function/lru.rs  the ManualLru and AutomaticLru policies;       *)
(*   - src/function/accumulated.rs  the traversal of accumulated_by.       *)
(* The parts share no state.  Spec (and FairSpec) run the storage part,    *)
(* SpecLru runs the eviction policies, SpecAcc (and FairSpecAcc) run the   *)
(* traversal; each leaves the other parts' variables at their initial      *)
(* values.                                                                 *)
(***************************************************************************)
EXTENDS Integers, Sequences, FiniteSets, TLC

\* ------------------------------------------------------------------ bounds
NumThreads == 3
MaxClones == 3

NumLruThreads == 2
NumIds == 3
MaxCap == 2
MaxHist == 4
MaxEdges == 4

Threads == 1..NumThreads
NoThread == 0

LruThreads == 1..NumLruThreads
Ids == 1..NumIds
None == 0

VARIABLES
    clones,     \* Coordinate.clones: the value behind the Mutex<usize>
    mutex,      \* holder of the Coordinate.clones mutex, NoThread when free
    waiting,    \* threads parked on Coordinate.cvar
    strong,     \* strong count of StorageHandle.zalsa_impl : Arc<Zalsa>
    flag,       \* the runtime's cancellation flag
    locals,     \* ZalsaLocal states not yet flushed by record_unfilled_pages
    storages,   \* storages[t]: Storage values owned by thread t
    handles,    \* handles[t]: bare StorageHandle values owned by thread t
    pc,         \* pc[t]: position of thread t inside its current operation
    kind,       \* kind[t]: "storage" or "handle", the value being cloned
    waited      \* waited[t]: t has parked on the cvar during its current zalsa_mut

coordVars == <<clones, mutex, waiting, strong, flag, locals, storages, handles, pc, kind, waited>>

VARIABLES
    variant,    \* the LruChoice in use: "automatic" or "manual"
    capacity,   \* capacity: AtomicCell<usize>
    set,        \* set: the FxLinkedHashSet<Id>, least recently used first
    setLock,    \* holder of the Mutex around set, NoThread when free
    lpc,        \* lpc[t]: position of thread t inside its current LRU call
    larg,       \* larg[t]: `index` / `capacity` argument, or the id popped last
    lcap,       \* lcap[t]: the local `capacity` / `cap` read by capacity.load()
    ret,        \* value returned by the latest record_use to return (None or an id)
    workers,    \* the threads that call into the policy
    hist,       \* history: the ids inserted into set, in order of insertion
                \* (kept when a single worker uses the policy)
    nsets,      \* history: number of set_capacity calls so far (2: two or more)
    cbLog,      \* ids the callback of the latest to_be_evicted was invoked with
    before,     \* history: set as the latest to_be_evicted found it
    skipped     \* history: the index of a record_use that has just returned at
                \* `if capacity == 0` (None after any other step of the policy)

lruVars == <<variant, capacity, set, setLock, lpc, larg, lcap, ret, workers, hist, nsets,
             cbLog, before, skipped>>

VARIABLES
    accPresent, \* an accumulator ingredient of the requested kind is registered
    origin,     \* origin[k]: the recorded inputs of k, or NoOrigin
    emits,      \* emits[k]: the values k's own execution pushed to the accumulator
    fetched,    \* self.fetch(db, key) has been called
    visited,    \* visited: FxHashSet<DatabaseKeyIndex>
    queue,      \* queue: VecDeque<DatabaseKeyIndex>
    output,     \* output: Vec<A>
    processed,  \* history: the keys passed to produced_by, in order
    apc         \* position inside accumulated_by: "start", "loop" or "done"

accVars == <<accPresent, origin, emits, fetched, visited, queue, output, processed, apc>>

vars == <<clones, mutex, waiting, strong, flag, locals, storages, handles, pc, kind, waited,
          variant, capacity, set, setLock, lpc, larg, lcap, ret, workers, hist, nsets,
          cbLog, before, skipped,
          accPresent, origin, emits, fetched, visited, queue, output, processed, apc>>

RECURSIVE SumOver(_, _)
SumOver(f, S) ==
    IF S = {} THEN 0
    ELSE LET x == CHOOSE y \in S : TRUE IN f[x] + SumOver(f, S \ {x})

\* -------------------------------------------------- StorageHandle::default
\* One Storage (Storage::default): counter 1, one Arc<Zalsa>, owned by thread 1.
CoordInit ==
    /\ clones = 1
    /\ mutex = NoThread
    /\ waiting = {}
    /\ strong = 1
    /\ flag = FALSE
    /\ locals = 1
    /\ storages = [t \in Threads |-> IF t = 1 THEN 1 ELSE 0]
    /\ handles = [t \in Threads |-> 0]
    /\ pc = [t \in Threads |-> "idle"]
    /\ kind = [t \in Threads |-> "handle"]
    /\ waited = [t \in Threads |-> FALSE]

Owned(t, k) == IF k = "storage" THEN storages[t] ELSE handles[t]

\* ------------------------------------------------ Clone for StorageHandle
\* Variant of BeginClone that forgets to count the new clone.
BeginClone_NoInc(t, k) ==
    /\ pc[t] = "idle"
    /\ Owned(t, k) >= 1
    /\ clones < MaxClones
    /\ mutex = NoThread
    /\ pc' = [pc EXCEPT ![t] = "c_build"]
    /\ kind' = [kind EXCEPT ![t] = k]
    /\ UNCHANGED <<clones, mutex, waiting, strong, flag, locals, storages, handles, waited>>
    /\ UNCHANGED lruVars
    /\ UNCHANGED accVars

\* `*self.coordinate.clones.lock() += 1;` : lock, increment, unlock (the guard
\* is a temporary).  Storage::clone enters here through self.handle.clone().
BeginClone(t, k) ==
    /\ pc[t] = "idle"
    /\ Owned(t, k) >= 1
    /\ clones < MaxClones
    /\ mutex = NoThread
    /\ clones' = clones + 1
    /\ pc' = [pc EXCEPT ![t] = "c_build"]
    /\ kind' = [kind EXCEPT ![t] = k]
    /\ UNCHANGED <<mutex, waiting, strong, flag, locals, storages, handles, waited>>
    /\ UNCHANGED lruVars
    /\ UNCHANGED accVars

\* `Self { zalsa_impl: self.zalsa_impl.clone(), coordinate: .., .. }`; for a
\* Storage also `zalsa_local: ZalsaLocal::new()`.  The new value ends up owned
\* by thread u (the cloning thread itself, or a thread it is moved to).
CloneBuild(t, u) ==
    /\ pc[t] = "c_build"
    /\ u = t \/ pc[u] = "idle"
    /\ strong' = strong + 1
    /\ IF kind[t] = "storage"
       THEN /\ storages' = [storages EXCEPT ![u] = @ + 1]
            /\ locals' = locals + 1
            /\ UNCHANGED handles
       ELSE /\ handles' = [handles EXCEPT ![u] = @ + 1]
            /\ UNCHANGED <<storages, locals>>
    /\ pc' = [pc EXCEPT ![t] = "idle"]
    /\ kind' = [kind EXCEPT ![t] = "handle"]
    /\ UNCHANGED <<clones, mutex, waiting, flag, waited>>
    /\ UNCHANGED lruVars
    /\ UNCHANGED accVars

\* ------------------------------------------------------------- conversions
\* StorageHandle::into_storage: wraps the handle with a fresh ZalsaLocal.
IntoStorage(t) ==
    /\ pc[t] = "idle"
    /\ handles[t] >= 1
    /\ handles' = [handles EXCEPT ![t] = @ - 1]
    /\ storages' = [storages EXCEPT ![t] = @ + 1]
    /\ locals' = locals + 1
    /\ UNCHANGED <<clones, mutex, waiting, strong, flag, pc, kind, waited>>
    /\ UNCHANGED lruVars
    /\ UNCHANGED accVars

\* Variant of IntoZalsaHandle that lets the Storage's destructors run after
\* the handle has been read out of it: the counter is decremented.
IntoZalsaHandle_Drop(t) ==
    /\ pc[t] = "idle"
    /\ storages[t] >= 1
    /\ mutex = NoThread
    /\ storages' = [storages EXCEPT ![t] = @ - 1]
    /\ handles' = [handles EXCEPT ![t] = @ + 1]
    /\ locals' = locals - 1
    /\ clones' = clones - 1
    /\ UNCHANGED <<mutex, waiting, strong, flag, pc, kind, waited>>
    /\ UNCHANGED lruVars
    /\ UNCHANGED accVars

\* Storage::into_zalsa_handle: record_unfilled_pages, then the handle is read
\* out and the Storage forgotten (no Drop runs).
IntoZalsaHandle(t) ==
    /\ pc[t] = "idle"
    /\ storages[t] >= 1
    /\ storages' = [storages EXCEPT ![t] = @ - 1]
    /\ handles' = [handles EXCEPT ![t] = @ + 1]
    /\ locals' = locals - 1
    /\ UNCHANGED <<clones, mutex, waiting, strong, flag, pc, kind, waited>>
    /\ UNCHANGED lruVars
    /\ UNCHANGED accVars

\* -------------------------------------------------------------------- drop
\* Variant of BeginDrop for a Storage without a Drop impl: its fields are
\* dropped, the thread-local state is never flushed.
BeginDrop_NoFlush(t, k) ==
    /\ pc[t] = "idle"
    /\ Owned(t, k) >= 1
    /\ IF k = "storage"
       THEN /\ storages' = [storages EXCEPT ![t] = @ - 1]
            /\ UNCHANGED handles
       ELSE /\ handles' = [handles EXCEPT ![t] = @ - 1]
            /\ UNCHANGED storages
    /\ pc' = [pc EXCEPT ![t] = "d_arc"]
    /\ UNCHANGED <<clones, mutex, waiting, strong, flag, locals, kind, waited>>
    /\ UNCHANGED lruVars
    /\ UNCHANGED accVars

\* A Storage or StorageHandle owned by t goes out of scope.  Drop for Storage
\* runs first for a Storage; a bare handle has only its fields to drop.
BeginDrop(t, k) ==
    /\ pc[t] = "idle"
    /\ Owned(t, k) >= 1
    /\ IF k = "storage"
       THEN /\ storages' = [storages EXCEPT ![t] = @ - 1]
            /\ UNCHANGED handles
       ELSE /\ handles' = [handles EXCEPT ![t] = @ - 1]
            /\ UNCHANGED storages
    /\ pc' = [pc EXCEPT ![t] = IF k = "storage" THEN "d_flush" ELSE "d_arc"]
    /\ UNCHANGED <<clones, mutex, waiting, strong, flag, locals, kind, waited>>
    /\ UNCHANGED lruVars
    /\ UNCHANGED accVars

\* Drop for Storage: record_unfilled_pages, then the fields are dropped.
DropFlush(t) ==
    /\ pc[t] = "d_flush"
    /\ locals' = locals - 1
    /\ pc' = [pc EXCEPT ![t] = "d_arc"]
    /\ UNCHANGED <<clones, mutex, waiting, strong, flag, storages, handles, kind, waited>>
    /\ UNCHANGED lruVars
    /\ UNCHANGED accVars

\* Variant of DropArc that keeps the engine pointer alive past the decrement
\* of the counter.
DropArc_Leak(t) ==
    /\ pc[t] = "d_arc"
    /\ pc' = [pc EXCEPT ![t] = "d_dec"]
    /\ UNCHANGED <<clones, mutex, waiting, strong, flag, locals, storages, handles, kind, waited>>
    /\ UNCHANGED lruVars
    /\ UNCHANGED accVars

\* Fields drop in declaration order: zalsa_impl (the Arc<Zalsa>) first.
DropArc(t) ==
    /\ pc[t] = "d_arc"
    /\ strong' = strong - 1
    /\ pc' = [pc EXCEPT ![t] = "d_dec"]
    /\ UNCHANGED <<clones, mutex, waiting, flag, locals, storages, handles, kind, waited>>
    /\ UNCHANGED lruVars
    /\ UNCHANGED accVars

\* Drop for CoordinateDrop: `*self.0.clones.lock() -= 1;`
DropDec(t) ==
    /\ pc[t] = "d_dec"
    /\ mutex = NoThread
    /\ clones' = clones - 1
    /\ pc' = [pc EXCEPT ![t] = "d_notify"]
    /\ UNCHANGED <<mutex, waiting, strong, flag, locals, storages, handles, kind, waited>>
    /\ UNCHANGED lruVars
    /\ UNCHANGED accVars

\* Variant of DropNotify that leaves the parked threads asleep.
DropNotify_NoNotify(t) ==
    /\ pc[t] = "d_notify"
    /\ pc' = [pc EXCEPT ![t] = "idle"]
    /\ UNCHANGED <<clones, mutex, waiting, strong, flag, locals, storages, handles, kind, waited>>
    /\ UNCHANGED lruVars
    /\ UNCHANGED accVars

\* Drop for CoordinateDrop: `self.0.cvar.notify_all();` every parked thread
\* is woken and has to take the mutex again before wait() returns.
DropNotify(t) ==
    /\ pc[t] = "d_notify"
    /\ waiting' = {}
    /\ pc' = [u \in Threads |-> IF u = t THEN "idle"
                                ELSE IF u \in waiting THEN "x_relock"
                                ELSE pc[u]]
    /\ UNCHANGED <<clones, mutex, strong, flag, locals, storages, handles, kind, waited>>
    /\ UNCHANGED lruVars
    /\ UNCHANGED accVars

\* ------------------------------------------- zalsa_mut / cancel_others
\* zalsa_mut on a database owning a Storage; cancel_others begins with
\* runtime().set_cancellation_flag() (the salsa_event that follows only
\* notifies the client).
ZalsaMut(t) ==
    /\ pc[t] = "idle"
    /\ storages[t] >= 1
    /\ flag' = TRUE
    /\ pc' = [pc EXCEPT ![t] = "x_lock"]
    /\ UNCHANGED <<clones, mutex, waiting, strong, locals, storages, handles, kind, waited>>
    /\ UNCHANGED lruVars
    /\ UNCHANGED accVars

\* `let mut clones = self.handle.coordinate.clones.lock();` and the
\* re-acquisition of the mutex inside cvar.wait() after a notification.
CancelLock(t) ==
    /\ pc[t] \in {"x_lock", "x_relock"}
    /\ mutex = NoThread
    /\ mutex' = t
    /\ pc' = [pc EXCEPT ![t] = "x_check"]
    /\ UNCHANGED <<clones, waiting, strong, flag, locals, storages, handles, kind, waited>>
    /\ UNCHANGED lruVars
    /\ UNCHANGED accVars

\* Variant of CancelCheck with `if` in place of `while`: after one wait the
\* caller goes on without looking at the counter again.
CancelCheck_If(t) ==
    /\ pc[t] = "x_check"
    /\ mutex = t
    /\ mutex' = NoThread
    /\ IF clones # 1 /\ ~waited[t]
       THEN /\ waiting' = waiting \cup {t}
            /\ waited' = [waited EXCEPT ![t] = TRUE]
            /\ pc' = [pc EXCEPT ![t] = "x_wait"]
       ELSE /\ pc' = [pc EXCEPT ![t] = "x_getmut"]
            /\ UNCHANGED <<waiting, waited>>
    /\ UNCHANGED <<clones, strong, flag, locals, storages, handles, kind>>
    /\ UNCHANGED lruVars
    /\ UNCHANGED accVars

\* Variant of CancelCheck that waits only for the handles of other workers.
CancelCheck_Others(t) ==
    /\ pc[t] = "x_check"
    /\ mutex = t
    /\ mutex' = NoThread
    /\ IF clones # storages[t] + handles[t]
       THEN /\ waiting' = waiting \cup {t}
            /\ waited' = [waited EXCEPT ![t] = TRUE]
            /\ pc' = [pc EXCEPT ![t] = "x_wait"]
       ELSE /\ pc' = [pc EXCEPT ![t] = "x_getmut"]
            /\ UNCHANGED <<waiting, waited>>
    /\ UNCHANGED <<clones, strong, flag, locals, storages, handles, kind>>
    /\ UNCHANGED lruVars
    /\ UNCHANGED accVars

\* `while *clones != 1 { cvar.wait(&mut clones); }` : with the mutex held,
\* either the loop ends (the guard is released on return) or the thread
\* atomically releases the mutex and parks on the condition variable.
CancelCheck(t) ==
    /\ pc[t] = "x_check"
    /\ mutex = t
    /\ mutex' = NoThread
    /\ IF clones # 1
       THEN /\ waiting' = waiting \cup {t}
            /\ waited' = [waited EXCEPT ![t] = TRUE]
            /\ pc' = [pc EXCEPT ![t] = "x_wait"]
       ELSE /\ pc' = [pc EXCEPT ![t] = "x_getmut"]
            /\ UNCHANGED <<waiting, waited>>
    /\ UNCHANGED <<clones, strong, flag, locals, storages, handles, kind>>
    /\ UNCHANGED lruVars
    /\ UNCHANGED accVars

\* `Arc::get_mut(&mut storage.handle.zalsa_impl).unwrap()` : None, hence a
\* panic, unless the strong count is 1.
GetMut(t) ==
    /\ pc[t] = "x_getmut"
    /\ pc' = [pc EXCEPT ![t] = IF strong = 1 THEN "x_reset" ELSE "panicked"]
    /\ UNCHANGED <<clones, mutex, waiting, strong, flag, locals, storages, handles, kind, waited>>
    /\ UNCHANGED lruVars
    /\ UNCHANGED accVars

\* Variant of ResetFlag that returns without resetting the flag.
ResetFlag_Missing(t) ==
    /\ pc[t] = "x_reset"
    /\ pc' = [pc EXCEPT ![t] = "x_ret"]
    /\ UNCHANGED <<clones, mutex, waiting, strong, flag, locals, storages, handles, kind, waited>>
    /\ UNCHANGED lruVars
    /\ UNCHANGED accVars

\* `zalsa.runtime_mut().reset_cancellation_flag(); zalsa` : zalsa_mut returns
\* the unique reference.
ResetFlag(t) ==
    /\ pc[t] = "x_reset"
    /\ flag' = FALSE
    /\ pc' = [pc EXCEPT ![t] = "x_ret"]
    /\ UNCHANGED <<clones, mutex, waiting, strong, locals, storages, handles, kind, waited>>
    /\ UNCHANGED lruVars
    /\ UNCHANGED accVars

\* The caller is done with the `&mut Zalsa` it was handed.
Release(t) ==
    /\ pc[t] = "x_ret"
    /\ pc' = [pc EXCEPT ![t] = "idle"]
    /\ waited' = [waited EXCEPT ![t] = FALSE]
    /\ UNCHANGED <<clones, mutex, waiting, strong, flag, locals, storages, handles, kind>>
    /\ UNCHANGED lruVars
    /\ UNCHANGED accVars

Continue(t) ==
    \/ \E u \in Threads : CloneBuild(t, u)
    \/ DropFlush(t)
    \/ DropArc(t)
    \/ DropDec(t)
    \/ DropNotify(t)
    \/ CancelLock(t)
    \/ CancelCheck(t)
    \/ GetMut(t)
    \/ ResetFlag(t)

CoordNext ==
    \/ \E t \in Threads, k \in {"storage", "handle"} : BeginClone(t, k)
    \/ \E t \in Threads, u \in Threads : CloneBuild(t, u)
    \/ \E t \in Threads : IntoStorage(t)
    \/ \E t \in Threads : IntoZalsaHandle(t)
    \/ \E t \in Threads, k \in {"storage", "handle"} : BeginDrop(t, k)
    \/ \E t \in Threads : DropFlush(t)
    \/ \E t \in Threads : DropArc(t)
    \/ \E t \in Threads : DropDec(t)
    \/ \E t \in Threads : DropNotify(t)
    \/ \E t \in Threads : ZalsaMut(t)
    \/ \E t \in Threads : CancelLock(t)
    \/ \E t \in Threads : CancelCheck(t)
    \/ \E t \in Threads : GetMut(t)
    \/ \E t \in Threads : ResetFlag(t)
    \/ \E t \in Threads : Release(t)

\* ======================================================= eviction policies
\* ManualLru::default / AutomaticLru::default: capacity 0 and an empty set.
\* The variant is chosen when the policy is configured and never changes.
\* The policy is used by one worker (the history of its calls is then kept)
\* or by all of them concurrently.
LruInit ==
    /\ variant \in {"automatic", "manual"}
    /\ capacity = 0
    /\ set = <<>>
    /\ setLock = NoThread
    /\ lpc = [t \in LruThreads |-> "idle"]
    /\ larg = [t \in LruThreads |-> 0]
    /\ lcap = [t \in LruThreads |-> 0]
    /\ ret = None
    /\ workers \in {{1}, LruThreads}
    /\ hist = <<>>
    /\ nsets = 0
    /\ cbLog = <<>>
    /\ before = <<>>
    /\ skipped = None

\* The policy while the storage part runs: untouched.
LruUnused ==
    /\ variant = "automatic"
    /\ capacity = 0
    /\ set = <<>>
    /\ setLock = NoThread
    /\ lpc = [t \in LruThreads |-> "idle"]
    /\ larg = [t \in LruThreads |-> 0]
    /\ lcap = [t \in LruThreads |-> 0]
    /\ ret = None
    /\ workers = LruThreads
    /\ hist = <<>>
    /\ nsets = 0
    /\ cbLog = <<>>
    /\ before = <<>>
    /\ skipped = None

Sequential == workers = {1}

\* A worker may start a record_use; a single worker makes at most MaxHist.
MayRecord(t) == t \in workers /\ (Sequential => Len(hist) < MaxHist)

Recorded(x) == IF Sequential THEN Append(hist, x) ELSE hist

Counted(n) == IF n < 2 THEN n + 1 ELSE 2

Elems(q) == {q[i] : i \in 1..Len(q)}

Without(q, x) == SelectSeq(q, LAMBDA y : y # x)

\* Variant of Insert that leaves an id that is already tracked where it is
\* (the `replace` behaviour of the linked hash set).
Insert_NoMove(q, x) == IF x \in Elems(q) THEN q ELSE Append(q, x)

\* FxLinkedHashSet::insert (hashlink): a new id goes to the back of the list,
\* an id that is already present is moved to the back.
Insert(q, x) == Append(Without(q, x), x)

\* Variant of Evict that lets the set grow one past the capacity.
Evict_OffByOne(q, cap) ==
    IF Len(q) > cap + 1 THEN <<Head(q), Tail(q)>> ELSE <<None, q>>

\* Variant of Evict that pops the most recently used id.
Evict_PopBack(q, cap) ==
    IF Len(q) > cap THEN <<q[Len(q)], SubSeq(q, 1, Len(q) - 1)>> ELSE <<None, q>>

\* `if set.len() > capacity { return set.pop_front(); } None` : the value
\* returned and the set that is left.
Evict(q, cap) ==
    IF Len(q) > cap THEN <<Head(q), Tail(q)>> ELSE <<None, q>>

\* ------------------------------------------------ AutomaticLru::record_use
\* Variant of AutoRecordUse that tracks the id before it looks at the
\* capacity.
AutoRecordUse_TrackAtZero(t, id) ==
    /\ variant = "automatic"
    /\ lpc[t] = "idle"
    /\ MayRecord(t)
    /\ IF capacity = 0
       THEN /\ ret' = None
            /\ skipped' = id
            /\ set' = Insert(set, id)
            /\ UNCHANGED <<lpc, larg, lcap>>
       ELSE /\ lpc' = [lpc EXCEPT ![t] = "r_lock"]
            /\ larg' = [larg EXCEPT ![t] = id]
            /\ lcap' = [lcap EXCEPT ![t] = capacity]
            /\ skipped' = None
            /\ UNCHANGED <<ret, set>>
    /\ UNCHANGED <<variant, capacity, setLock, workers, hist, nsets, cbLog, before>>
    /\ UNCHANGED coordVars
    /\ UNCHANGED accVars

\* `let capacity = self.capacity.load(); if capacity == 0 { return None; }`
AutoRecordUse(t, id) ==
    /\ variant = "automatic"
    /\ lpc[t] = "idle"
    /\ MayRecord(t)
    /\ IF capacity = 0
       THEN /\ ret' = None
            /\ skipped' = id
            /\ UNCHANGED <<lpc, larg, lcap>>
       ELSE /\ lpc' = [lpc EXCEPT ![t] = "r_lock"]
            /\ larg' = [larg EXCEPT ![t] = id]
            /\ lcap' = [lcap EXCEPT ![t] = capacity]
            /\ skipped' = None
            /\ UNCHANGED ret
    /\ UNCHANGED <<variant, capacity, set, setLock, workers, hist, nsets, cbLog, before>>
    /\ UNCHANGED coordVars
    /\ UNCHANGED accVars

\* `let mut set = self.set.lock(); set.insert(index); if set.len() > capacity
\* { return set.pop_front(); } None` : one critical section, the lock is
\* released on return.
AutoInsertEvict(t) ==
    /\ lpc[t] = "r_lock"
    /\ setLock = NoThread
    /\ LET r == Evict(Insert(set, larg[t]), lcap[t])
       IN /\ ret' = r[1]
          /\ set' = r[2]
    /\ hist' = Recorded(larg[t])
    /\ lpc' = [lpc EXCEPT ![t] = "idle"]
    /\ larg' = [larg EXCEPT ![t] = 0]
    /\ lcap' = [lcap EXCEPT ![t] = 0]
    /\ UNCHANGED <<variant, capacity, setLock, workers, nsets, cbLog, before>>
    /\ skipped' = None
    /\ UNCHANGED coordVars
    /\ UNCHANGED accVars

\* ---------------------------------------------- AutomaticLru::set_capacity
\* `self.capacity.store(capacity);`
AutoSetCapacity(t, n) ==
    /\ variant = "automatic"
    /\ lpc[t] = "idle"
    /\ t \in workers
    /\ capacity' = n
    /\ nsets' = Counted(nsets)
    /\ larg' = [larg EXCEPT ![t] = n]
    /\ lpc' = [lpc EXCEPT ![t] = "s_lock"]
    /\ UNCHANGED <<variant, set, setLock, lcap, ret, workers, hist, cbLog, before>>
    /\ skipped' = None
    /\ UNCHANGED coordVars
    /\ UNCHANGED accVars

\* Variant of AutoSetApply that runs an eviction pass when the set is resized:
\* the set is cut down to the new capacity from the least recently used end.
AutoSetApply_Truncate(t) ==
    /\ lpc[t] = "s_lock"
    /\ setLock = NoThread
    /\ set' = IF Len(set) > larg[t]
              THEN SubSeq(set, Len(set) - larg[t] + 1, Len(set))
              ELSE set
    /\ lpc' = [lpc EXCEPT ![t] = "idle"]
    /\ larg' = [larg EXCEPT ![t] = 0]
    /\ skipped' = None
    /\ UNCHANGED <<variant, capacity, setLock, lcap, ret, workers, hist, nsets, cbLog, before>>
    /\ UNCHANGED coordVars
    /\ UNCHANGED accVars

\* `let mut set = self.set.lock(); if capacity == 0 { *set =
\* FxLinkedHashSet::default(); } else { set.reserve(capacity + 1); }` ;
\* reserve does not touch the contents.
AutoSetApply(t) ==
    /\ lpc[t] = "s_lock"
    /\ setLock = NoThread
    /\ set' = IF larg[t] = 0 THEN <<>> ELSE set
    /\ lpc' = [lpc EXCEPT ![t] = "idle"]
    /\ larg' = [larg EXCEPT ![t] = 0]
    /\ UNCHANGED <<variant, capacity, setLock, lcap, ret, workers, hist, nsets, cbLog, before>>
    /\ skipped' = None
    /\ UNCHANGED coordVars
    /\ UNCHANGED accVars

\* --------------------------------------------------- ManualLru::record_use
\* `self.set.lock().insert(index); None` ; the guard is a temporary.
ManualRecordUse(t, id) ==
    /\ variant = "manual"
    /\ lpc[t] = "idle"
    /\ MayRecord(t)
    /\ setLock = NoThread
    /\ set' = Insert(set, id)
    /\ hist' = Recorded(id)
    /\ ret' = None
    /\ UNCHANGED <<variant, capacity, setLock, lpc, larg, lcap, workers, nsets, cbLog, before>>
    /\ skipped' = None
    /\ UNCHANGED coordVars
    /\ UNCHANGED accVars

\* ------------------------------------------------- ManualLru::set_capacity
\* `self.capacity.store(capacity);` and nothing else.
ManualSetCapacity(t, n) ==
    /\ variant = "manual"
    /\ lpc[t] = "idle"
    /\ t \in workers
    /\ capacity' = n
    /\ nsets' = Counted(nsets)
    /\ UNCHANGED <<variant, set, setLock, lpc, larg, lcap, ret, workers, hist, cbLog, before>>
    /\ skipped' = None
    /\ UNCHANGED coordVars
    /\ UNCHANGED accVars

\* ------------------------------------------------ ManualLru::to_be_evicted
\* `let mut set = self.set.lock(); let cap = self.capacity.load();
\* if set.len() <= cap || cap == 0 { return; }`
ManualEvictBegin(t) ==
    /\ variant = "manual"
    /\ lpc[t] = "idle"
    /\ t \in workers
    /\ setLock = NoThread
    /\ cbLog' = <<>>
    /\ before' = set
    /\ IF Len(set) <= capacity \/ capacity = 0
       THEN UNCHANGED <<setLock, lpc, lcap>>
       ELSE /\ setLock' = t
            /\ lcap' = [lcap EXCEPT ![t] = capacity]
            /\ lpc' = [lpc EXCEPT ![t] = "e_pop"]
    /\ UNCHANGED <<variant, capacity, set, larg, ret, workers, hist, nsets>>
    /\ skipped' = None
    /\ UNCHANGED coordVars
    /\ UNCHANGED accVars

\* `while let Some(id) = set.pop_front()` : the loop ends on an empty set.
ManualEvictPop(t) ==
    /\ lpc[t] = "e_pop"
    /\ IF set = <<>>
       THEN /\ setLock' = NoThread
            /\ lpc' = [lpc EXCEPT ![t] = "idle"]
            /\ lcap' = [lcap EXCEPT ![t] = 0]
            /\ UNCHANGED <<set, larg>>
       ELSE /\ larg' = [larg EXCEPT ![t] = Head(set)]
            /\ set' = Tail(set)
            /\ lpc' = [lpc EXCEPT ![t] = "e_cb"]
            /\ UNCHANGED <<setLock, lcap>>
    /\ UNCHANGED <<variant, capacity, ret, workers, hist, nsets, cbLog, before>>
    /\ skipped' = None
    /\ UNCHANGED coordVars
    /\ UNCHANGED accVars

\* Variant of ManualEvictCb whose loop stops one id too late.
ManualEvictCb_Strict(t) ==
    /\ lpc[t] = "e_cb"
    /\ cbLog' = Append(cbLog, larg[t])
    /\ larg' = [larg EXCEPT ![t] = 0]
    /\ IF Len(set) < lcap[t]
       THEN /\ setLock' = NoThread
            /\ lpc' = [lpc EXCEPT ![t] = "idle"]
            /\ lcap' = [lcap EXCEPT ![t] = 0]
       ELSE /\ lpc' = [lpc EXCEPT ![t] = "e_pop"]
            /\ UNCHANGED <<setLock, lcap>>
    /\ UNCHANGED <<variant, capacity, set, ret, workers, hist, nsets, before>>
    /\ skipped' = None
    /\ UNCHANGED coordVars
    /\ UNCHANGED accVars

\* `cb(id); if set.len() <= cap { break; }` ; the callback runs with the
\* lock on set still held, and the lock is released when the call returns.
ManualEvictCb(t) ==
    /\ lpc[t] = "e_cb"
    /\ cbLog' = Append(cbLog, larg[t])
    /\ larg' = [larg EXCEPT ![t] = 0]
    /\ IF Len(set) <= lcap[t]
       THEN /\ setLock' = NoThread
            /\ lpc' = [lpc EXCEPT ![t] = "idle"]
            /\ lcap' = [lcap EXCEPT ![t] = 0]
       ELSE /\ lpc' = [lpc EXCEPT ![t] = "e_pop"]
            /\ UNCHANGED <<setLock, lcap>>
    /\ UNCHANGED <<variant, capacity, set, ret, workers, hist, nsets, before>>
    /\ skipped' = None
    /\ UNCHANGED coordVars
    /\ UNCHANGED accVars

LruNext ==
    \/ \E t \in LruThreads, id \in Ids : AutoRecordUse(t, id)
    \/ \E t \in LruThreads : AutoInsertEvict(t)
    \/ \E t \in LruThreads, n \in 0..MaxCap : AutoSetCapacity(t, n)
    \/ \E t \in LruThreads : AutoSetApply(t)
    \/ \E t \in LruThreads, id \in Ids : ManualRecordUse(t, id)
    \/ \E t \in LruThreads, n \in 0..MaxCap : ManualSetCapacity(t, n)
    \/ \E t \in LruThreads : ManualEvictBegin(t)
    \/ \E t \in LruThreads : ManualEvictPop(t)
    \/ \E t \in LruThreads : ManualEvictCb(t)

\* ========================================================== accumulated_by
\* The computations of the database; accumulated_by is called for Root.
Nodes == {"root", "x", "y"}
Root == "root"

\* An input of an origin: a computation, or an input whose conversion to a
\* DatabaseKeyIndex fails.
Foreign == "foreign"
Targets == Nodes \cup {Foreign}

\* `origin(k.key_index)` returning None.
NoOrigin == <<"none">>

\* What origin(k) can be when at most n inputs are left to record.
Origins(n) == {NoOrigin} \cup UNION {[1..m -> Targets] : m \in 0..n}

InputCount(a, b) == (IF a = NoOrigin THEN 0 ELSE Len(a)) + (IF b = NoOrigin THEN 0 ELSE Len(b))

\* The values each computation pushed: the example of the specification, and
\* a table in which a node pushed several values and the root none.
EmitTables ==
    { [k \in Nodes |-> IF k = "root" THEN <<"V2">> ELSE IF k = "x" THEN <<"V1">> ELSE <<>>],
      [k \in Nodes |-> IF k = "root" THEN <<>> ELSE IF k = "x" THEN <<"V1", "V2">> ELSE <<"V3">>] }

\* A recorded dependency graph with at most MaxEdges inputs in all, before
\* accumulated_by is called.
AccInit ==
    /\ accPresent \in BOOLEAN
    /\ \E a \in Origins(MaxEdges) :
         \E b \in Origins(MaxEdges - InputCount(a, <<>>)) :
            \E c \in Origins(MaxEdges - InputCount(a, b)) :
               origin = [k \in Nodes |-> IF k = "root" THEN a ELSE IF k = "x" THEN b ELSE c]
    /\ emits \in EmitTables
    /\ fetched = FALSE
    /\ visited = {}
    /\ queue = <<>>
    /\ output = <<>>
    /\ processed = <<>>
    /\ apc = "start"

\* The traversal while the other parts run: not called.
AccUnused ==
    /\ accPresent = FALSE
    /\ origin = [k \in Nodes |-> NoOrigin]
    /\ emits = [k \in Nodes |-> <<>>]
    /\ fetched = FALSE
    /\ visited = {}
    /\ queue = <<>>
    /\ output = <<>>
    /\ processed = <<>>
    /\ apc = "start"

\* `origin.iter().flat_map(|origin| origin.inputs())`: no origin, no inputs.
Inputs(k) == IF origin[k] = NoOrigin THEN <<>> ELSE origin[k]

\* Variant of Enqueue that pushes new inputs at the front of the queue.
RECURSIVE Enqueue_Front(_, _, _)
Enqueue_Front(ins, vis, q) ==
    IF ins = <<>> THEN <<vis, q>>
    ELSE LET i == Head(ins)
         IN IF i \in Nodes /\ i \notin vis
            THEN Enqueue_Front(Tail(ins), vis \cup {i}, <<i>> \o q)
            ELSE Enqueue_Front(Tail(ins), vis, q)

\* `for input in inputs { if let Ok(input) = input.try_into() { if
\* visited.insert(input) { queue.push_back(input); } } }` : the visited set
\* and the queue after the loop.
RECURSIVE Enqueue(_, _, _)
Enqueue(ins, vis, q) ==
    IF ins = <<>> THEN <<vis, q>>
    ELSE LET i == Head(ins)
         IN IF i \in Nodes /\ i \notin vis
            THEN Enqueue(Tail(ins), vis \cup {i}, Append(q, i))
            ELSE Enqueue(Tail(ins), vis, q)

\* Variant of AccStart that brings the key up to date before it looks for
\* the accumulator.
AccStart_FetchFirst ==
    /\ apc = "start"
    /\ fetched' = TRUE
    /\ IF accPresent
       THEN /\ visited' = {Root}
            /\ queue' = <<Root>>
            /\ apc' = "loop"
       ELSE /\ apc' = "done"
            /\ UNCHANGED <<visited, queue>>
    /\ UNCHANGED <<accPresent, origin, emits, output, processed>>
    /\ UNCHANGED coordVars
    /\ UNCHANGED lruVars

\* Variant of AccStart that leaves the start key out of the visited set.
AccStart_NoSeed ==
    /\ apc = "start"
    /\ IF accPresent
       THEN /\ fetched' = TRUE
            /\ visited' = {}
            /\ queue' = <<Root>>
            /\ apc' = "loop"
       ELSE /\ apc' = "done"
            /\ UNCHANGED <<fetched, visited, queue>>
    /\ UNCHANGED <<accPresent, origin, emits, output, processed>>
    /\ UNCHANGED coordVars
    /\ UNCHANGED lruVars

\* `let Some(accumulator) = ..::from_db(db) else { return vec![]; };` then
\* `self.fetch(db, key)` and the seeding of visited and queue with db_key.
AccStart ==
    /\ apc = "start"
    /\ IF accPresent
       THEN /\ fetched' = TRUE
            /\ visited' = {Root}
            /\ queue' = <<Root>>
            /\ apc' = "loop"
       ELSE /\ apc' = "done"
            /\ UNCHANGED <<fetched, visited, queue>>
    /\ UNCHANGED <<accPresent, origin, emits, output, processed>>
    /\ UNCHANGED coordVars
    /\ UNCHANGED lruVars

\* One iteration of `while let Some(k) = queue.pop_front()`: produced_by
\* appends k's own values, then k's inputs are enqueued.
AccVisit ==
    /\ apc = "loop"
    /\ queue # <<>>
    /\ LET k == Head(queue)
           r == Enqueue(Inputs(k), visited, Tail(queue))
       IN /\ output' = output \o emits[k]
          /\ processed' = Append(processed, k)
          /\ visited' = r[1]
          /\ queue' = r[2]
    /\ UNCHANGED <<accPresent, origin, emits, fetched, apc>>
    /\ UNCHANGED coordVars
    /\ UNCHANGED lruVars

\* The queue is empty: the loop ends and `output` is returned.
AccReturn ==
    /\ apc = "loop"
    /\ queue = <<>>
    /\ apc' = "done"
    /\ UNCHANGED <<accPresent, origin, emits, fetched, visited, queue, output, processed>>
    /\ UNCHANGED coordVars
    /\ UNCHANGED lruVars

AccNext ==
    \/ AccStart
    \/ AccVisit
    \/ AccReturn

\* ---------------------------------------------------------- specifications
Init == CoordInit /\ LruUnused /\ AccUnused

Next == CoordNext

Spec == Init /\ [][Next]_vars

\* Threads are scheduled fairly: an operation in progress keeps running
\* whenever it can take its next step.
FairSpec == Spec /\ \A t \in Threads : WF_vars(Continue(t))

InitLru == CoordInit /\ LruInit /\ AccUnused

SpecLru == InitLru /\ [][LruNext]_vars

InitAcc == CoordInit /\ LruUnused /\ AccInit

SpecAcc == InitAcc /\ [][AccNext]_vars

\* accumulated_by runs on one thread, which keeps running.
FairSpecAcc == SpecAcc /\ WF_vars(AccNext)

\* ================================================== exclusive access claims
\* Handles that exist as far as the counter is concerned: owned values, a
\* clone under construction whose increment is done, and a value being
\* dropped whose decrement is still to come.
LiveHandles ==
    SumOver(storages, Threads) + SumOver(handles, Threads)
    + Cardinality({t \in Threads : pc[t] \in {"c_build", "d_flush", "d_arc", "d_dec"}})

\* t is inside cancel_others, before its loop has ended.
InCancel(t) == pc[t] \in {"x_lock", "x_check", "x_wait", "x_relock"}

\* cancel_others has returned to zalsa_mut on thread t.
PastCancel(t) == pc[t] \in {"x_getmut", "x_reset", "x_ret"}

\* C1: once the request for exclusive access is past its wait (and in every
\* state in which it has returned) the counter is 1 and the requester's
\* Storage is the only live handle: no other clone is alive.
C1_ExclusiveOnReturn ==
    \A t \in Threads :
        PastCancel(t) =>
            /\ clones = 1
            /\ LiveHandles = 1
            /\ storages[t] = 1
            /\ handles[t] = 0

\* A request returned after parking, while the thread whose drop let it go
\* is still finishing that drop.
C1_Witness ==
    \E t, u \in Threads :
        /\ pc[t] = "x_ret"
        /\ waited[t]
        /\ pc[u] = "d_notify"

\* C2: under fair scheduling, if from some point on the requester's handle
\* is the only live one, every request for exclusive access returns (no
\* wake-up is lost); and a requester that holds the only handle never parks.
C2_RequestReturns ==
    /\ \A t \in Threads :
          (<>[](LiveHandles = 1)) => [](InCancel(t) => <>(pc[t] = "x_ret"))
    /\ [][\A t \in Threads :
            (InCancel(t) /\ LiveHandles = 1 /\ ~waited[t]) => ~waited'[t]]_vars

\* A request that had to park has returned.
C2_Witness == \E t \in Threads : pc[t] = "x_ret" /\ waited[t]

\* C3: the counter equals the number of live handles, and is not 0 while a
\* handle exists.
C3_CountConservation ==
    /\ clones = LiveHandles
    /\ (LiveHandles >= 1 => clones >= 1)

\* Three handles are live: one owned, one being cloned, one being dropped.
C3_Witness ==
    /\ clones = 3
    /\ \E t, u \in Threads : pc[t] = "c_build" /\ pc[u] = "d_arc"

\* C4: the flag is set from the start of the request until its reset, in
\* particular during the whole wait; it is clear once the request has
\* returned, and it is set only while some request is in progress.
C4_FlagProtocol ==
    /\ \A t \in Threads : (InCancel(t) \/ pc[t] \in {"x_getmut", "x_reset"}) => flag
    /\ \A t \in Threads : pc[t] = "x_ret" => ~flag
    /\ flag => \E t \in Threads : InCancel(t) \/ pc[t] \in {"x_getmut", "x_reset"}

\* A request that parked has returned, with the flag clear.
C4_Witness == \E t \in Threads : pc[t] = "x_ret" /\ waited[t] /\ ~flag

\* C5: a worker that requests exclusive access while it owns a second handle
\* stays inside cancel_others, with the counter at 2 or more, whatever the
\* other threads do; it neither returns nor panics.
SelfBlocked(t) == InCancel(t) /\ storages[t] + handles[t] >= 2

C5_SelfDeadlock ==
    [][\A t \in Threads :
         SelfBlocked(t) => (clones >= 2 /\ SelfBlocked(t)' /\ clones' >= 2)]_vars

\* The worker is parked and its own two handles are the only ones left.
C5_Witness ==
    \E t \in Threads :
        /\ pc[t] = "x_wait"
        /\ storages[t] + handles[t] = 2
        /\ LiveHandles = 2
        /\ \A u \in Threads \ {t} : pc[u] = "idle"

\* ================================================== eviction policy claims
AllIdle == \A t \in LruThreads : lpc[t] = "idle"

\* Position in the history h of the latest insertion of x (0 if there is none).
LastIdx(h, x) ==
    IF x \in Elems(h)
    THEN CHOOSE i \in 1..Len(h) : h[i] = x /\ \A j \in (i + 1)..Len(h) : h[j] # x
    ELSE 0

\* The capacity was set once, to a value above 0, and not changed since.
FixedCapacity == nsets = 1 /\ capacity > 0

\* C6: automatic variant, capacity set once to C > 0: between the critical
\* sections of the calls, made by one worker or by several concurrently, the
\* tracked set holds at most C ids.
C6_CapacityInvariant ==
    (variant = "automatic" /\ FixedCapacity /\ setLock = NoThread)
        => Len(set) <= capacity

\* The set is full at capacity 2, the latest call has evicted an id, and
\* another worker is in the middle of a record_use.
C6_Witness ==
    /\ variant = "automatic"
    /\ FixedCapacity
    /\ ~Sequential
    /\ capacity = 2
    /\ Len(set) = 2
    /\ ret # None
    /\ \E t \in LruThreads : lpc[t] = "r_lock"

\* C7 as stated: with capacity 1, after record_use of a, b, a the call
\* record_use(c) returns b.
C7_Original ==
    \A a, b, c \in Ids :
        (/\ a # b /\ a # c /\ b # c
         /\ variant = "automatic"
         /\ FixedCapacity
         /\ capacity = 1
         /\ AllIdle
         /\ hist = <<a, b, a, c>>)
            => ret = b

\* C7 as amended: with capacity 2, after record_use of a, b, a the call
\* record_use(c) returns b, the least recently used id, and keeps a and c.
C7_LruOrder ==
    \A a, b, c \in Ids :
        (/\ a # b /\ a # c /\ b # c
         /\ variant = "automatic"
         /\ FixedCapacity
         /\ capacity = 2
         /\ AllIdle
         /\ hist = <<a, b, a, c>>)
            => (ret = b /\ set = <<a, c>>)

\* The four calls of the example have been made at capacity 2.
C7_Witness ==
    /\ variant = "automatic"
    /\ FixedCapacity
    /\ capacity = 2
    /\ AllIdle
    /\ hist = <<1, 2, 1, 3>>
    /\ ret = 2

\* C8: automatic variant, a record_use that ran under the capacity C > 0 in
\* force: it returns an id exactly when the set, with its argument at the most
\* recently used end, is larger than C; it then returns one id, which was
\* tracked, is not the argument and is the only id removed; and (checked
\* against the history of a single worker's calls) no tracked id has an older
\* latest record_use.
C8_EvictionChoice ==
    [][\A t \in LruThreads :
         (/\ variant = "automatic"
          /\ lpc[t] = "r_lock"
          /\ lpc'[t] = "idle"
          /\ lcap[t] = capacity)
            => LET full == Elems(set) \cup {larg[t]}
               IN /\ (ret' # None) <=> (Cardinality(full) > capacity)
                  /\ ret' = None => Elems(set') = full
                  /\ set'[Len(set')] = larg[t]
                  /\ ret' # None =>
                       /\ ret' \in Elems(set)
                       /\ ret' # larg[t]
                       /\ Elems(set') = full \ {ret'}
                       /\ Sequential =>
                            \A x \in full : LastIdx(hist', ret') <= LastIdx(hist', x)]_vars

\* An eviction happened after an id had been moved to the back: the evicted
\* id is the second one recorded, not the first.
C8_Witness ==
    /\ variant = "automatic"
    /\ AllIdle
    /\ Len(hist) = 4
    /\ hist[1] = hist[3]
    /\ ret = hist[2]
    /\ ret # None
    /\ Len(set) = 2

\* C9: manual variant.  record_use returns nothing.  to_be_evicted leaves
\* the set alone and makes no callback when the size is at or under the
\* capacity or the capacity is 0; otherwise, with cap the capacity it read,
\* it calls back once for each of the (size - cap) least recently used ids,
\* least recently used first, removes exactly those and returns with the
\* other ids in unchanged order.
C9_ManualEviction ==
    [][variant = "manual" =>
        /\ ret' = None
        /\ (\E x \in Elems(set) : x \notin Elems(set')) => \E t \in LruThreads : lpc[t] = "e_pop"
        /\ (cbLog' # cbLog /\ cbLog' # <<>>) => \E t \in LruThreads : lpc[t] = "e_cb"
        /\ \A t \in LruThreads :
             /\ (lpc[t] = "idle" /\ lpc'[t] # "idle") =>
                   /\ Len(set) > capacity
                   /\ capacity # 0
                   /\ set' = set
                   /\ cbLog' = <<>>
             /\ (lpc[t] = "e_pop" /\ lpc'[t] # "e_pop") => lpc'[t] = "e_cb"
             /\ (lpc[t] = "e_cb" /\ lpc'[t] = "idle") =>
                   LET n == Len(before)
                       k == n - lcap[t]
                   IN /\ k >= 1
                      /\ cbLog' = SubSeq(before, 1, k)
                      /\ set' = SubSeq(before, k + 1, n)
                      /\ Len(set') <= lcap[t]
                      /\ Sequential =>
                           \A i, j \in 1..n :
                              i < j => LastIdx(hist, before[i]) < LastIdx(hist, before[j])]_vars

\* A to_be_evicted call of a single worker has returned after two callbacks,
\* one id is kept, and the first id evicted is not the first one recorded.
C9_Witness ==
    /\ variant = "manual"
    /\ Sequential
    /\ AllIdle
    /\ Len(cbLog) = 2
    /\ Len(before) = 3
    /\ Len(set) = 1
    /\ before[1] # hist[1]

\* C10 as stated: when set_capacity(0) returns, the tracked set is empty, in
\* the automatic and in the manual variant.
C10_Original ==
    [][/\ \A t \in LruThreads :
            (lpc[t] = "s_lock" /\ lpc'[t] = "idle" /\ larg[t] = 0) => set' = <<>>
       /\ (variant = "manual" /\ capacity' = 0 /\ (nsets' # nsets \/ capacity # 0))
            => set' = <<>>]_vars

\* C11 as stated: whenever the callback passed to to_be_evicted is running,
\* the lock around the tracked set is free.
C11_Original ==
    \A t \in LruThreads : lpc[t] = "e_cb" => setLock = NoThread

\* ======================================================== traversal claims
\* The computations reachable from Root over recorded, convertible inputs.
RECURSIVE Closure(_)
Closure(S) ==
    LET S2 == S \cup {i \in Nodes : \E k \in S : i \in Elems(Inputs(k))}
    IN IF S2 = S THEN S ELSE Closure(S2)

Reachable == Closure({Root})

NoDup(q) == \A i, j \in 1..Len(q) : i # j => q[i] # q[j]

\* The computations among ins that are not in seen, each once, in order of
\* first appearance.
RECURSIVE FirstSeen(_, _)
FirstSeen(ins, seen) ==
    IF ins = <<>> THEN <<>>
    ELSE IF Head(ins) \in Nodes /\ Head(ins) \notin seen
         THEN <<Head(ins)>> \o FirstSeen(Tail(ins), seen \cup {Head(ins)})
         ELSE FirstSeen(Tail(ins), seen)

RECURSIVE AllInputs(_)
AllInputs(level) ==
    IF level = <<>> THEN <<>> ELSE Inputs(Head(level)) \o AllInputs(Tail(level))

\* Breadth-first order, level by level: the next level is what the inputs
\* of the current level discover, in recorded order.
RECURSIVE Levels(_, _)
Levels(level, seen) ==
    IF level = <<>> THEN <<>>
    ELSE LET next == FirstSeen(AllInputs(level), seen)
         IN level \o Levels(next, seen \cup Elems(next))

RefOrder == Levels(<<Root>>, {Root})

RECURSIVE Produced(_)
Produced(order) ==
    IF order = <<>> THEN <<>> ELSE emits[Head(order)] \o Produced(Tail(order))

\* C12: the worklist loop terminates, no key is passed to produced_by twice,
\* only reachable keys are processed, and at the end every reachable key has
\* been processed.
C12_TerminatesVisitsOnce ==
    /\ <>(apc = "done")
    /\ [](NoDup(processed) /\ Elems(processed) \subseteq Reachable)
    /\ []((apc = "done" /\ accPresent) => Elems(processed) = Reachable)

\* A finished traversal of a graph with a cycle back to the root and a node
\* that is an input of two nodes.
C12_Witness ==
    /\ apc = "done"
    /\ Len(processed) = 3
    /\ origin["root"] = <<"x", "y">>
    /\ origin["x"] = <<"y", "root">>

\* C13: accumulated_by returns the values of the keys in breadth-first
\* discovery order, each key's values together; keys without origin add no
\* inputs and inputs that are not computations are skipped.  For root -> {x, y}
\* with root pushing V2, x pushing V1 and y nothing the result is [V2, V1].
C13_BreadthFirstResult ==
    (apc = "done" /\ accPresent) =>
        /\ processed = RefOrder
        /\ output = Produced(RefOrder)
        /\ (/\ origin["root"] = <<"x", "y">>
            /\ Inputs("x") = <<>>
            /\ Inputs("y") = <<>>
            /\ emits["root"] = <<"V2">>
            /\ emits["x"] = <<"V1">>
            /\ emits["y"] = <<>>) => output = <<"V2", "V1">>

\* The example graph has been traversed; y has no origin and x an origin
\* without inputs.
C13_Witness ==
    /\ apc = "done"
    /\ origin = [k \in Nodes |-> IF k = "root" THEN <<"x", "y">>
                                 ELSE IF k = "x" THEN <<>> ELSE NoOrigin]
    /\ emits["root"] = <<"V2">>
    /\ output = <<"V2", "V1">>

\* C14: without an accumulator of the requested kind the call returns the
\* empty sequence at once: no fetch, no key visited or processed.
C14_MissingAccumulator ==
    ~accPresent =>
        /\ ~fetched
        /\ visited = {}
        /\ queue = <<>>
        /\ processed = <<>>
        /\ output = <<>>
        /\ apc \in {"start", "done"}

\* The call has returned on a database whose root has recorded inputs.
C14_Witness ==
    /\ ~accPresent
    /\ apc = "done"
    /\ origin["root"] = <<"x", "y">>

\* ============================================= ownership and teardown claims
\* Threads at one of the given positions.
At(ps) == Cardinality({t \in Threads : pc[t] \in ps})

\* C15: the strong count of the engine pointer never exceeds the clone
\* counter (it lags behind it exactly by the clones whose pointer is not yet
\* built and the drops whose pointer is already released); so once the
\* requester has seen the counter at 1 the strong count is 1, and the unwrap
\* of Arc::get_mut in zalsa_mut never panics.
C15_UniqueOwnership ==
    /\ strong <= clones
    /\ clones - strong = At({"c_build", "d_dec"})
    /\ \A t \in Threads : PastCancel(t) => strong = 1
    /\ \A t \in Threads : pc[t] # "panicked"

\* The requester is about to call Arc::get_mut after it parked, and the
\* thread that dropped the other handle has released its pointer and
\* decremented the counter, but has not returned from the drop.
C15_Witness ==
    \E t, u \in Threads :
        /\ pc[t] = "x_getmut"
        /\ waited[t]
        /\ strong = 1
        /\ pc[u] = "d_notify"

\* C16: every thread-local state that is not yet flushed belongs to a Storage
\* that is still owned or whose drop has not passed its flush: a drop that
\* has reached the release of the pointer, the decrement or the notification
\* has flushed.  The decrement and the notification do not touch the
\* thread-local states, and a requester that has seen the counter at 1 runs
\* with no flush pending but that of its own Storage.
C16_TeardownOrder ==
    /\ locals = SumOver(storages, Threads) + At({"d_flush"})
    /\ \A t \in Threads :
          PastCancel(t) => (locals = 1 /\ \A u \in Threads : pc[u] # "d_flush")

\* The requester is parked with the counter at 2 while the drop of the other
\* Storage is at its flush: two thread-local states are unflushed, and the
\* decrement that lets the requester go is still to come.
C16_Witness ==
    \E t, u \in Threads :
        /\ pc[t] = "x_wait"
        /\ pc[u] = "d_flush"
        /\ clones = 2
        /\ locals = 2

C18_Original ==
    (variant = "automatic" /\ AllIdle /\ capacity = 0) => set = <<>>

\* ============================================ automatic variant, resizing
Max(a, b) == IF a >= b THEN a ELSE b

\* C19: with set_capacity and record_use interleaved in any way, a
\* set_capacity(n) with n > 0 leaves the tracked set as it is, in both of its
\* steps; a record_use that read a capacity C > 0 removes at most one id,
\* leaves at most max(size before, C) ids, and does not make the set grow when
\* it held C ids or more (C is also the capacity field when one worker makes
\* all the calls).
C19_ResizeKeepsSet ==
    [][\A t \in LruThreads :
         /\ (variant = "automatic" /\ lpc[t] = "idle" /\ lpc'[t] = "s_lock") => set' = set
         /\ (variant = "automatic" /\ lpc[t] = "s_lock" /\ lpc'[t] = "idle" /\ larg[t] > 0)
               => set' = set
         /\ (variant = "automatic" /\ lpc[t] = "r_lock" /\ lpc'[t] = "idle") =>
               /\ lcap[t] > 0
               /\ Sequential => lcap[t] = capacity
               /\ Cardinality(Elems(set) \ Elems(set')) <= 1
               /\ Len(set') <= Max(Len(set), lcap[t])
               /\ Len(set) >= lcap[t] => Len(set') <= Len(set)]_vars

\* The capacity was lowered to 1 while two ids were tracked: both are still
\* tracked after the resize and after a further record_use, which evicted one
\* id and did not let the set grow.
C19_Witness ==
    /\ variant = "automatic"
    /\ AllIdle
    /\ nsets = 2
    /\ capacity = 1
    /\ Len(set) = 2
    /\ ret # None
    /\ Len(hist) >= 3

\* ================================================== conversion claims
\* Thread t turns a Storage it owns into a bare handle in this step.
ToHandle(t) == storages'[t] = storages[t] - 1 /\ handles'[t] = handles[t] + 1

\* Thread t wraps a bare handle it owns into a Storage in this step.
ToStorage(t) == handles'[t] = handles[t] - 1 /\ storages'[t] = storages[t] + 1

\* C20: a conversion between Storage and StorageHandle changes neither the
\* counter nor the engine pointer's count and wakes no waiter; into_storage
\* adds one thread-local state and into_zalsa_handle flushes exactly one.  The
\* counter changes only by +1 at the start of a clone and by -1 in a drop, so
\* whenever no clone or drop is in progress it is the number of handles
\* owned, bare or inside a Storage.
C20_ConversionFrame ==
    /\ [][\A t \in Threads :
            /\ ToHandle(t) =>
                  /\ clones' = clones /\ strong' = strong /\ locals' = locals - 1
                  /\ waiting' = waiting /\ pc' = pc /\ mutex' = mutex
            /\ ToStorage(t) =>
                  /\ clones' = clones /\ strong' = strong /\ locals' = locals + 1
                  /\ waiting' = waiting /\ pc' = pc /\ mutex' = mutex]_vars
    /\ [][clones' # clones =>
            \E t \in Threads :
               \/ pc[t] = "idle" /\ pc'[t] = "c_build" /\ clones' = clones + 1
               \/ pc[t] = "d_dec" /\ pc'[t] = "d_notify" /\ clones' = clones - 1]_vars
    /\ []((At({"c_build", "d_flush", "d_arc", "d_dec"}) = 0) =>
             clones = SumOver(storages, Threads) + SumOver(handles, Threads))

\* After clones, conversions and drops: three handles are owned, a bare one
\* among them (which only a conversion can have produced) next to a Storage,
\* no clone or drop is in progress, and the counter is 3.
C20_Witness ==
    /\ \A t \in Threads : pc[t] = "idle"
    /\ clones = 3
    /\ SumOver(handles, Threads) >= 1
    /\ SumOver(storages, Threads) >= 1
    /\ locals = SumOver(storages, Threads)

====
